---------------------------- MODULE Spec2Model ----------------------------
(***************************************************************************)
(* Adjacency-matrix viewer: the two programs of the repository,            *)
(*   matrix_gen.py  (first variant: generates a matrix and shows it) and   *)
(*   matrix_viz.py  (improved variant: loads a matrix file, colormaps).    *)
(* Modelled: the interactor style (pan / zoom / reset), the trame callbacks*)
(* (zoom_in, zoom_out, reset_view, colormap change), setup_server, the     *)
(* command line of matrix_viz.py, generate_matrix and create_vtk_pipeline. *)
(***************************************************************************)
EXTENDS Integers, Sequences, FiniteSets, TLC

(***************************************************************************)
(* Python floats are IEEE-754 binary64.  A positive normal double is the   *)
(* record [hi, lo, e] with 53-bit significand M = hi * 2^26 + lo,          *)
(* 2^52 <= M < 2^53, and value M * 2^(e - 52).  Products and quotients are *)
(* rounded to nearest, ties to even, as the hardware does.                 *)
(***************************************************************************)
W26 == 2^26

W27 == 2^27

W13 == 2^13

W12 == 2^12

\* the double nearest to a literal of the source
Double(hi, lo, e) == [hi |-> hi, lo |-> lo, e |-> e]

\* 1.0 = 0x1.0000000000000p+0
One == Double(67108864, 0, 0)

\* 1.2 = 0x1.3333333333333p+0 (the zoom factor)
ZoomFactor == Double(80530636, 53687091, 0)

\* 5.0 = 0x1.4000000000000p+2 (upper clamp of matrix_viz.py)
ZoomMax == Double(83886080, 0, 2)

\* 0.1 = 0x1.999999999999ap-4 (lower clamp of matrix_viz.py)
ZoomMin == Double(107374182, 26843546, -4)

\* a <= b on significands
SigLe(ahi, alo, bhi, blo) == ahi < bhi \/ (ahi = bhi /\ alo <= blo)

\* a <= b on doubles
FLe(a, b) ==
    \/ a.e < b.e
    \/ a.e = b.e /\ SigLe(a.hi, a.lo, b.hi, b.lo)

FLt(a, b) == FLe(a, b) /\ a # b

\* Python's min(a, b) and max(a, b): the first argument unless the second is
\* strictly smaller (larger)
FMin(a, b) == IF FLt(b, a) THEN b ELSE a

FMax(a, b) == IF FLt(a, b) THEN b ELSE a

\* round to nearest, ties to even: significand (hi, lo), exponent e, the first
\* discarded bit (round) and whether any later discarded bit is set (sticky)
RoundNearestEven(hi, lo, e, round, sticky) ==
    IF round = 1 /\ (sticky \/ lo % 2 = 1)
    THEN IF lo + 1 < W26 THEN Double(hi, lo + 1, e)
         ELSE IF hi + 1 < W27 THEN Double(hi + 1, 0, e)
         ELSE Double(W26, 0, e + 1)
    ELSE Double(hi, lo, e)

\* a * b: the exact 106-bit product of the significands in 13-bit limbs, then
\* normalised and rounded
FMul(a, b) ==
    LET a0 == a.lo % W13  a1 == a.lo \div W13
        a2 == a.hi % W13  a3 == a.hi \div W13
        b0 == b.lo % W13  b1 == b.lo \div W13
        b2 == b.hi % W13  b3 == b.hi \div W13
        c0 == a0 * b0
        c1 == a0 * b1 + a1 * b0 + (c0 \div W13)
        c2 == a0 * b2 + a1 * b1 + a2 * b0 + (c1 \div W13)
        c3 == a0 * b3 + a1 * b2 + a2 * b1 + a3 * b0 + (c2 \div W13)
        c4 == a1 * b3 + a2 * b2 + a3 * b1 + (c3 \div W13)
        c5 == a2 * b3 + a3 * b2 + (c4 \div W13)
        c6 == a3 * b3 + (c5 \div W13)
        p0 == c0 % W13  p1 == c1 % W13  p2 == c2 % W13  p3 == c3 % W13
        p4 == c4 % W13  p5 == c5 % W13
        \* product = (phi * 2^26 + plo) * 2^52 + (p3 p2 p1 p0)
        plo == p4 + p5 * W13
        phi == c6
        round == p3 \div W12
        sticky == (p3 % W12 # 0) \/ p2 # 0 \/ p1 # 0 \/ p0 # 0
    IN  IF phi >= W27
        THEN RoundNearestEven(phi \div 2, (plo \div 2) + (phi % 2) * (W26 \div 2),
                              a.e + b.e + 1, plo % 2, round = 1 \/ sticky)
        ELSE RoundNearestEven(phi, plo, a.e + b.e, round, sticky)

\* one step of long division in base 2^13: for a remainder R = (rhi, rlo) below
\* the divisor B = (bhi, blo), the digit d = R * 2^13 \div B and the remainder
\* R * 2^13 - d * B, as <<d, hi, lo>>.  The digit is estimated from the leading
\* bits (it is off by at most one) and corrected by the exact remainder.
DivDigit(rhi, rlo, bhi, blo) ==
    LET est == (rhi * 8 + (rlo \div (W13 * 1024))) \div (bhi \div 1024)
        r0  == rlo % W13  r1 == rlo \div W13
        r2  == rhi % W13  r3 == rhi \div W13
        b0  == blo % W13  b1 == blo \div W13
        b2  == bhi % W13  b3 == bhi \div W13
        \* R * 2^13 - est * B, limb by limb with signed carries
        t0  == 0 - est * b0
        t1  == r0 - est * b1 + (t0 \div W13)
        t2  == r1 - est * b2 + (t1 \div W13)
        t3  == r2 - est * b3 + (t2 \div W13)
        t4  == r3 + (t3 \div W13)
        lo  == (t0 % W13) + (t1 % W13) * W13
        hi  == (t2 % W13) + (t3 % W13) * W13 + t4 * W26
    IN  IF hi < 0
        THEN <<est - 1, hi + bhi + ((lo + blo) \div W26), (lo + blo) % W26>>
        ELSE IF SigLe(bhi, blo, hi, lo)
        THEN <<est + 1, hi - bhi - (IF lo < blo THEN 1 ELSE 0), (lo - blo) % W26>>
        ELSE <<est, hi, lo>>

\* a / b: the leading quotient bit, then five digits of 13 bits; the first four
\* complete the significand, the fifth gives the round bit, the rest of it and
\* the last remainder the sticky bit
FDiv(a, b) ==
    LET big == SigLe(b.hi, b.lo, a.hi, a.lo)
        \* the dividend N, doubled when a's significand is the smaller: B <= N < 2B
        n2  == 2 * a.lo
        nhi == IF big THEN a.hi ELSE 2 * a.hi + (n2 \div W26)
        nlo == IF big THEN a.lo ELSE n2 % W26
        e   == IF big THEN a.e - b.e ELSE a.e - b.e - 1
        \* N - B
        rhi == nhi - b.hi - (IF nlo < b.lo THEN 1 ELSE 0)
        rlo == (nlo - b.lo) % W26
        d1  == DivDigit(rhi, rlo, b.hi, b.lo)
        d2  == DivDigit(d1[2], d1[3], b.hi, b.lo)
        d3  == DivDigit(d2[2], d2[3], b.hi, b.lo)
        d4  == DivDigit(d3[2], d3[3], b.hi, b.lo)
        d5  == DivDigit(d4[2], d4[3], b.hi, b.lo)
    IN  RoundNearestEven(W26 + d1[1] * W13 + d2[1], d3[1] * W13 + d4[1], e,
                         d5[1] \div W12,
                         d5[1] % W12 # 0 \/ d5[2] # 0 \/ d5[3] # 0)

(***************************************************************************)
(* Bounds of the model and sets the inputs are drawn from.                 *)
(***************************************************************************)
\* largest |x|, |y| of an actor position that a pan may reach
MaxPan == 2

\* colormap changes that build a new pipeline, per run
MaxRebuilds == 1

\* lines the logger keeps
MaxLog == 1

\* the first variant's zoom is unclamped: its binary exponent stays in
\* -MaxZoomExp .. MaxZoomExp
MaxZoomExp == 2

\* cell values are multiples of 1 / CellDen
CellDen == 4

\* pointer positions GetEventPosition() may report
EventPositions == {<<0, 0>>, <<2, 1>>}

\* names matplotlib's registry knows (two of the toolbar's items) and one it
\* does not
Colormaps == {"YlOrRd", "viridis"}

ColormapNames == Colormaps \cup {"nosuch"}

FileNames == {"m.txt", "x.txt"}

FileKinds == {"missing", "matrix", "garbage"}

\* the matrix a well-formed file holds: "0 1\n1 0\n", as floats
FileMatrix == [i \in 0..1 |-> [j \in 0..1 |-> IF i = j THEN 0 ELSE CellDen]]

VARIABLES
    variant,        \* "gen" (matrix_gen.py) or "viz" (matrix_viz.py)
    pc,             \* where the program is
    cli,            \* [argv, exit_code, printed]: the process's command line and output
    files,          \* the file system: name -> kind of file
    matrix,         \* the matrix setup_server holds
    state,          \* server.state: [colormap_name, loading]
    log,            \* what logger.error wrote
    style,          \* CustomInteractorStyle: [pan_mode, last_x, last_y, image_actor, zoom_level]
    handlers,       \* the interactor style is installed and the callbacks are registered
    actors,         \* the vtkImageActor of every pipeline built: [image, pos, scale]
    pipeline,       \* setup_server's locals [actor, renderer, render_window] (ids; 0: none)
    view_window,    \* the render window handed to VtkRemoteView (0: none)
    last_reset,     \* the handler that ran last was reset_view
    gm              \* the frame of generate_matrix: its arguments, matrix, loop indices

vars == <<variant, pc, cli, files, matrix, state, log, style, handlers, actors,
          pipeline, view_window, last_reset, gm>>

Abs(n) == IF n < 0 THEN -n ELSE n

(***************************************************************************)
(* create_vtk_pipeline                                                     *)
(***************************************************************************)
\* colors.Normalize(vmin=0, vmax=1): (v - vmin) / (vmax - vmin), not clipped;
\* the result is again in units of 1 / CellDen
Normalize(v) == v

\* the colormap's lookup: 256 entries, index int(x * 256), x = 1 in the last
\* entry, values outside [0, 1] in the first or last entry
LutIndex(x) ==
    IF x < 0 THEN 0
    ELSE IF x >= CellDen THEN 255
    ELSE (x * 256) \div CellDen

\* (colormap(x) * 255).astype(np.uint8)[:3]: the bytes of entry k of the scale
ScaleBytes(name, k) == <<name, k>>

NoEdgeColor == <<245, 245, 245>>

Size(m) == Cardinality(DOMAIN m)

\* an image whose rows and columns are swapped
ImageDataTransposed(m, colormap_name) ==
    [p \in (0..Size(m) - 1) \X (0..Size(m) - 1) |->
        IF m[p[1]][p[2]] > 0
        THEN ScaleBytes(colormap_name, LutIndex(Normalize(m[p[1]][p[2]])))
        ELSE NoEdgeColor]

\* the image create_vtk_pipeline fills: pixel (x, y) = (j, i) from matrix[i][j]
ImageData(m, colormap_name) ==
    [p \in (0..Size(m) - 1) \X (0..Size(m) - 1) |->
        LET j == p[1]
            i == p[2]
        IN  IF m[i][j] > 0
            THEN ScaleBytes(colormap_name, LutIndex(Normalize(m[i][j])))
            ELSE NoEdgeColor]

\* a new vtkImageActor on the image: position (0,0,0), scale (1,1,1)
NewActor(image) == [image |-> image, pos |-> <<0, 0, 0>>, scale |-> <<One, One, One>>]

\* matrix_viz.py: colormaps[colormap_name] raises KeyError for an unknown name,
\* before anything is built
create_vtk_pipeline(m, colormap_name) ==
    IF colormap_name \notin Colormaps
    THEN [raised |-> "KeyError"]
    ELSE [raised |-> "", actor |-> NewActor(ImageData(m, colormap_name))]

\* matrix_gen.py: an edge is blue, no edge is white
GenImageData(m) ==
    [p \in (0..Size(m) - 1) \X (0..Size(m) - 1) |->
        IF m[p[2]][p[1]] > 0 THEN <<0, 0, 255>> ELSE <<255, 255, 255>>]

gen_create_vtk_pipeline(m) == [raised |-> "", actor |-> NewActor(GenImageData(m))]

(***************************************************************************)
(* CustomInteractorStyle                                                   *)
(***************************************************************************)
NewStyle == [pan_mode |-> FALSE, last_x |-> 0, last_y |-> 0, image_actor |-> 0,
             zoom_level |-> One]

\* actor.SetPosition(x, y, z)
SetPosition(as, a, x, y, z) == [as EXCEPT ![a].pos = <<x, y, z>>]

\* actor.SetScale(sx, sy, sz)
SetScale(as, a, sx, sy, sz) == [as EXCEPT ![a].scale = <<sx, sy, sz>>]

\* _update_zoom: the actor's scale follows zoom_level (both variants)
update_zoom(as, st) ==
    IF st.image_actor = 0 THEN as
    ELSE SetScale(as, st.image_actor, st.zoom_level, st.zoom_level, One)

\* SetImageActor (matrix_viz.py)
SetImageActor(as, st, a) ==
    [style  |-> [st EXCEPT !.image_actor = a],
     actors |-> IF a # 0 THEN SetPosition(as, a, 0, 0, 0) ELSE as]

\* SetImageActor (matrix_gen.py): SetPosition(0, 0) leaves z alone
GenSetImageActor(as, st, a) ==
    [style  |-> [st EXCEPT !.image_actor = a],
     actors |-> SetPosition(as, a, 0, 0, as[a].pos[3])]

Serving == pc = "serving" /\ handlers

Rest == <<variant, pc, cli, files, matrix, state, log, handlers, pipeline, view_window, gm>>

\* a handler that returns without touching anything
Nothing == UNCHANGED <<style, actors, Rest>>

\* OnLeftButtonDown: start panning, remember the pointer
LeftButtonDown(x, y) ==
    /\ style' = [style EXCEPT !.pan_mode = TRUE, !.last_x = x, !.last_y = y]
    /\ UNCHANGED <<actors, Rest>>

VizOnLeftButtonDown ==
    /\ Serving /\ variant = "viz"
    /\ \E p \in EventPositions : LeftButtonDown(p[1], p[2])
    /\ last_reset' = FALSE

GenOnLeftButtonDown ==
    /\ Serving /\ variant = "gen"
    /\ \E p \in EventPositions : LeftButtonDown(p[1], p[2])
    /\ last_reset' = FALSE

\* OnLeftButtonUp: stop panning
LeftButtonUp ==
    /\ style' = [style EXCEPT !.pan_mode = FALSE]
    /\ UNCHANGED <<actors, Rest>>

VizOnLeftButtonUp ==
    /\ Serving
    /\ variant = "viz"
    /\ LeftButtonUp
    /\ last_reset' = FALSE

GenOnLeftButtonUp ==
    /\ Serving
    /\ variant = "gen"
    /\ LeftButtonUp
    /\ last_reset' = FALSE

\* a pan that follows the pointer on both axes
PannedPositionUnmirrored(old_pos, dx, dy) == <<old_pos[1] + dx, old_pos[2] + dy, old_pos[3]>>

\* the position OnMouseMove gives the actor: x follows the pointer, y is
\* mirrored (the display's y axis is the scene's, upside down)
PannedPosition(old_pos, dx, dy) == <<old_pos[1] + dx, old_pos[2] - dy, old_pos[3]>>

\* OnMouseMove: while panning, move the actor by the pointer's delta
MouseMove(x, y) ==
    IF style.pan_mode /\ style.image_actor # 0
    THEN LET old_pos == actors[style.image_actor].pos
             new_pos == PannedPosition(old_pos, x - style.last_x, y - style.last_y)
         IN  /\ Abs(new_pos[1]) <= MaxPan /\ Abs(new_pos[2]) <= MaxPan
             /\ actors' = SetPosition(actors, style.image_actor,
                                      new_pos[1], new_pos[2], new_pos[3])
             /\ style' = [style EXCEPT !.last_x = x, !.last_y = y]
             /\ UNCHANGED Rest
    ELSE Nothing

VizOnMouseMove ==
    /\ Serving /\ variant = "viz"
    /\ \E p \in EventPositions : MouseMove(p[1], p[2])
    /\ last_reset' = FALSE

GenOnMouseMove ==
    /\ Serving /\ variant = "gen"
    /\ \E p \in EventPositions : MouseMove(p[1], p[2])
    /\ last_reset' = FALSE

\* a zoom-in without the upper clamp
VizZoomedInUnclamped(z) == FMul(z, ZoomFactor)

\* matrix_viz.py: zoom_level = min(5.0, zoom_level * 1.2)
VizZoomedIn(z) == FMin(ZoomMax, FMul(z, ZoomFactor))

\* matrix_viz.py: zoom_level = max(0.1, zoom_level / 1.2)
VizZoomedOut(z) == FMax(ZoomMin, FDiv(z, ZoomFactor))

\* the style with a new zoom level, and the actor scaled to it
Zoomed(z) ==
    LET st == [style EXCEPT !.zoom_level = z]
    IN  /\ style' = st
        /\ actors' = update_zoom(actors, st)
        /\ UNCHANGED Rest

VizOnMouseWheelForward ==
    /\ Serving /\ variant = "viz"
    /\ IF style.image_actor # 0 THEN Zoomed(VizZoomedIn(style.zoom_level))
       ELSE Nothing
    /\ last_reset' = FALSE

VizOnMouseWheelBackward ==
    /\ Serving /\ variant = "viz"
    /\ IF style.image_actor # 0 THEN Zoomed(VizZoomedOut(style.zoom_level))
       ELSE Nothing
    /\ last_reset' = FALSE

\* the zoom_in and zoom_out callbacks of matrix_viz.py call the wheel handlers
viz_zoom_in ==
    /\ Serving /\ variant = "viz"
    /\ IF style.image_actor # 0 THEN Zoomed(VizZoomedIn(style.zoom_level))
       ELSE Nothing
    /\ last_reset' = FALSE

viz_zoom_out ==
    /\ Serving /\ variant = "viz"
    /\ IF style.image_actor # 0 THEN Zoomed(VizZoomedOut(style.zoom_level))
       ELSE Nothing
    /\ last_reset' = FALSE

\* a ResetView that forgets the actor's position
ResetViewZoomOnly ==
    IF style.image_actor # 0
    THEN LET st == [style EXCEPT !.zoom_level = One]
         IN  /\ style' = st
             /\ actors' = update_zoom(actors, st)
             /\ UNCHANGED Rest
    ELSE Nothing

\* ResetView: zoom 1.0, actor back at the origin
ResetView ==
    IF style.image_actor # 0
    THEN LET st == [style EXCEPT !.zoom_level = One]
         IN  /\ style' = st
             /\ actors' = update_zoom(SetPosition(actors, style.image_actor, 0, 0, 0), st)
             /\ UNCHANGED Rest
    ELSE Nothing

reset_view ==
    /\ Serving
    /\ variant = "viz"
    /\ ResetView
    /\ last_reset' = TRUE

\* 0.8 = 0x1.999999999999ap-1
FourFifths == Double(107374182, 26843546, -1)

\* a zoom-out that multiplies by 0.8 instead of dividing by 1.2
GenZoomedOutByProduct(z) == FMul(z, FourFifths)

\* matrix_gen.py: zoom_level *= 1.2 and zoom_level /= 1.2, unclamped
GenZoomedIn(z) == FMul(z, ZoomFactor)

GenZoomedOut(z) == FDiv(z, ZoomFactor)

InZoomRange(z) == -MaxZoomExp <= z.e /\ z.e <= MaxZoomExp

GenOnMouseWheelForward ==
    /\ Serving /\ variant = "gen"
    /\ IF style.image_actor # 0
       THEN /\ InZoomRange(GenZoomedIn(style.zoom_level))
            /\ Zoomed(GenZoomedIn(style.zoom_level))
       ELSE Nothing
    /\ last_reset' = FALSE

GenOnMouseWheelBackward ==
    /\ Serving /\ variant = "gen"
    /\ IF style.image_actor # 0
       THEN /\ InZoomRange(GenZoomedOut(style.zoom_level))
            /\ Zoomed(GenZoomedOut(style.zoom_level))
       ELSE Nothing
    /\ last_reset' = FALSE

\* the zoom_in and zoom_out callbacks of matrix_gen.py change zoom_level
\* themselves
gen_zoom_in ==
    /\ Serving /\ variant = "gen"
    /\ InZoomRange(GenZoomedIn(style.zoom_level))
    /\ Zoomed(GenZoomedIn(style.zoom_level))
    /\ last_reset' = FALSE

gen_zoom_out ==
    /\ Serving /\ variant = "gen"
    /\ InZoomRange(GenZoomedOut(style.zoom_level))
    /\ Zoomed(GenZoomedOut(style.zoom_level))
    /\ last_reset' = FALSE

(***************************************************************************)
(* setup_server, the colormap callback, the server                         *)
(***************************************************************************)
ProgramName == "matrix_viz.py"

\* load_matrix_from_file: FileNotFoundError for a missing file, np.loadtxt's
\* ValueError for one that holds no matrix
load_matrix_from_file(filename) ==
    IF files[filename] = "missing" THEN [raised |-> "FileNotFoundError"]
    ELSE IF files[filename] = "garbage" THEN [raised |-> "ValueError"]
    ELSE [raised |-> "", matrix |-> FileMatrix]

NoPipeline == [actor |-> 0, renderer |-> 0, render_window |-> 0]

\* pipeline number k: its actor, its renderer (holding the actor) and its
\* render window (holding the renderer)
Pipeline(k) == [actor |-> k, renderer |-> k, render_window |-> k]

\* setup_server(matrix_file) of matrix_viz.py: everything after the state's
\* initialisation is inside one try; an exception is logged and printed, and
\* the server is returned as it is
VizSetupServer ==
    /\ pc = "setup_server" /\ variant = "viz"
    /\ LET loaded == load_matrix_from_file(cli.argv[2])
           built  == create_vtk_pipeline(loaded.matrix, "YlOrRd")
           set    == SetImageActor(<<built.actor>>, NewStyle, 1)
       IN  /\ state' = [colormap_name |-> "YlOrRd", loading |-> FALSE]
           /\ IF loaded.raised = ""
              THEN /\ matrix' = loaded.matrix
                   /\ pipeline' = Pipeline(1)
                   /\ style' = set.style
                   /\ actors' = set.actors
                   /\ view_window' = Pipeline(1).render_window
                   /\ handlers' = TRUE
                   /\ UNCHANGED <<log, cli>>
              ELSE /\ log' = Append(log, "Error during initialization")
                   /\ cli' = [cli EXCEPT !.printed = Append(@, "Error during initialization")]
                   /\ UNCHANGED <<matrix, pipeline, style, actors, view_window, handlers>>
    /\ pc' = "start"
    /\ last_reset' = FALSE
    /\ UNCHANGED <<variant, files, gm>>

\* the matrix generate_matrix hands to the first variant's setup_server
GenMatrix == [i \in 0..1 |-> [j \in 0..1 |-> IF i = j THEN 0 ELSE 1]]

\* setup_server() of matrix_gen.py
GenSetupServer ==
    /\ pc = "setup_server" /\ variant = "gen"
    /\ LET built == gen_create_vtk_pipeline(GenMatrix)
           set   == GenSetImageActor(<<built.actor>>, NewStyle, 1)
       IN  /\ matrix' = GenMatrix
           /\ pipeline' = Pipeline(1)
           /\ style' = set.style
           /\ actors' = set.actors
           /\ view_window' = Pipeline(1).render_window
           /\ handlers' = TRUE
    /\ pc' = "start"
    /\ last_reset' = FALSE
    /\ UNCHANGED <<variant, files, state, log, cli, gm>>

\* server.start()
ServerStart ==
    /\ pc = "start"
    /\ pc' = "serving"
    /\ last_reset' = FALSE
    /\ UNCHANGED <<variant, cli, files, matrix, state, log, style, handlers, actors,
                   pipeline, view_window, gm>>

\* an update_colormap_name without its try: the KeyError leaves the callback,
\* loading stays True
update_colormap_name_uncaught(colormap_name) ==
    LET built == create_vtk_pipeline(matrix, colormap_name)
    IN  /\ IF built.raised = ""
           THEN /\ Len(actors) <= MaxRebuilds
                /\ actors' = Append(actors, built.actor)
                /\ pipeline' = Pipeline(Len(actors) + 1)
                /\ state' = [state EXCEPT !.colormap_name = colormap_name, !.loading = FALSE]
           ELSE /\ state' = [state EXCEPT !.colormap_name = colormap_name, !.loading = TRUE]
                /\ UNCHANGED <<actors, pipeline>>
        /\ UNCHANGED <<variant, pc, cli, files, matrix, style, handlers, view_window, gm, log>>

\* update_colormap_name: rebuilds the pipeline into setup_server's locals; an
\* exception is logged; loading is True only inside the callback
update_colormap_name(colormap_name) ==
    LET built == create_vtk_pipeline(matrix, colormap_name)
    IN  /\ state' = [state EXCEPT !.colormap_name = colormap_name, !.loading = FALSE]
        /\ IF built.raised = ""
           THEN /\ Len(actors) <= MaxRebuilds
                /\ actors' = Append(actors, built.actor)
                /\ pipeline' = Pipeline(Len(actors) + 1)
                /\ UNCHANGED log
           ELSE /\ Len(log) < MaxLog
                /\ log' = Append(log, "Error updating colormap")
                /\ UNCHANGED <<actors, pipeline>>
        /\ UNCHANGED <<variant, pc, cli, files, matrix, style, handlers, view_window, gm>>

ColormapChange ==
    /\ Serving /\ variant = "viz"
    /\ \E name \in ColormapNames : update_colormap_name(name)
    /\ last_reset' = FALSE

(***************************************************************************)
(* The viewers: either program from its setup_server on                    *)
(***************************************************************************)
DefaultFile == "m.txt"

NoCli == [argv |-> <<>>, exit_code |-> "none", printed |-> <<>>]

NoState == [colormap_name |-> "", loading |-> FALSE]

NoFrame == [pc |-> "idle"]

Init ==
    /\ variant \in {"gen", "viz"}
    /\ pc = "setup_server"
    /\ cli = [NoCli EXCEPT !.argv = IF variant = "viz" THEN <<ProgramName, DefaultFile>>
                                    ELSE <<"matrix_gen.py">>]
    /\ \E kind \in {"matrix", "garbage"} :
          files = [f \in FileNames |->
                      IF f = DefaultFile /\ variant = "viz" THEN kind ELSE "missing"]
    /\ matrix = <<>>
    /\ state = NoState
    /\ log = <<>>
    /\ style = NewStyle
    /\ handlers = FALSE
    /\ actors = <<>>
    /\ pipeline = NoPipeline
    /\ view_window = 0
    /\ last_reset = FALSE
    /\ gm = NoFrame

Next ==
    \/ VizSetupServer
    \/ GenSetupServer
    \/ ServerStart
    \/ VizOnLeftButtonDown
    \/ VizOnLeftButtonUp
    \/ VizOnMouseMove
    \/ VizOnMouseWheelForward
    \/ VizOnMouseWheelBackward
    \/ viz_zoom_in
    \/ viz_zoom_out
    \/ reset_view
    \/ ColormapChange
    \/ GenOnLeftButtonDown
    \/ GenOnLeftButtonUp
    \/ GenOnMouseMove
    \/ GenOnMouseWheelForward
    \/ GenOnMouseWheelBackward
    \/ gen_zoom_in
    \/ gen_zoom_out

Spec == Init /\ [][Next]_vars
(***************************************************************************)
(* The command line of matrix_viz.py                                       *)
(***************************************************************************)
\* arguments after the program's name, at most
MaxArgs == 2

RECURSIVE SeqsOf(_, _)
\* the sequences over S of length n
SeqsOf(S, n) ==
    IF n = 0 THEN {<<>>}
    ELSE {Append(q, x) : q \in SeqsOf(S, n - 1), x \in S}

Everything == <<matrix, state, log, style, handlers, actors, pipeline, view_window,
                last_reset, gm>>

\* sys.exit(1) after the lines printed
Exit(lines) ==
    /\ cli' = [cli EXCEPT !.exit_code = 1, !.printed = cli.printed \o lines]
    /\ pc' = "exited"

\* if len(sys.argv) != 2: usage, exit 1
MainCheckArgs ==
    /\ pc = "main"
    /\ IF Len(cli.argv) # 2
       THEN Exit(<<"Usage: python3 matrix_viz.py <matrix_file>">>)
       ELSE pc' = "check_file" /\ UNCHANGED cli
    /\ UNCHANGED <<variant, files, Everything>>

\* a file check that reports the missing file and goes on
MainCheckFileNoExit ==
    /\ pc = "check_file"
    /\ cli' = IF files[cli.argv[2]] = "missing"
              THEN [cli EXCEPT !.printed = Append(@, "Error: Matrix file not found.")]
              ELSE cli
    /\ pc' = "setup_server"
    /\ UNCHANGED <<variant, files, Everything>>

\* if not os.path.exists(matrix_file): error, exit 1
MainCheckFile ==
    /\ pc = "check_file"
    /\ IF files[cli.argv[2]] = "missing"
       THEN Exit(<<"Error: Matrix file not found.">>)
       ELSE pc' = "setup_server" /\ UNCHANGED cli
    /\ UNCHANGED <<variant, files, Everything>>

InitMain ==
    /\ variant = "viz"
    /\ pc = "main"
    /\ \E n \in 0..MaxArgs : \E args \in SeqsOf(FileNames, n) :
          cli = [NoCli EXCEPT !.argv = <<ProgramName>> \o args]
    /\ files \in [FileNames -> FileKinds]
    /\ matrix = <<>>
    /\ state = NoState
    /\ log = <<>>
    /\ style = NewStyle
    /\ handlers = FALSE
    /\ actors = <<>>
    /\ pipeline = NoPipeline
    /\ view_window = 0
    /\ last_reset = FALSE
    /\ gm = NoFrame

NextMain ==
    \/ MainCheckArgs
    \/ MainCheckFile
    \/ VizSetupServer
    \/ ServerStart

SpecMain == InitMain /\ [][NextMain]_vars

(***************************************************************************)
(* generate_matrix, a statement at a time                                  *)
(***************************************************************************)
\* largest size
MaxSize == 5

\* largest num_communities
MaxComm == 3

\* largest community_size (a block draws community_size^2 numbers at once)
MaxBlock == 2

\* np.random.random() yields k / 2 for k in Draws; a density is d / 2 for d
\* in Densities
Draws == {0, 1}

Densities == {0, 1, 2}

Others == <<variant, pc, cli, files, matrix, state, log, style, handlers, actors,
            pipeline, view_window, last_reset>>

\* a draw that also succeeds at equality
SampledInclusive(u, density) == u <= density

\* np.random.random() < density
Sampled(u, density) == u < density

Zeros(n) == [r \in 0..n - 1 |-> [c \in 0..n - 1 |-> 0]]

\* np.triu(block, 1): the entries above the diagonal, False elsewhere
Triu1(block, r, c) == IF c > r THEN block[<<r, c>>] ELSE FALSE

\* a block without its transpose
UpperOnly(block, r, c) == IF Triu1(block, r, c) THEN 1 ELSE 0

\* (np.triu(block, 1) + np.triu(block, 1).T).astype(int)
Symmetrized(block, r, c) ==
    IF Triu1(block, r, c) \/ Triu1(block, c, r) THEN 1 ELSE 0

\* matrix[start:end, start:end] = block
WithBlock(m, start, end, block) ==
    [r \in DOMAIN m |-> [c \in DOMAIN m |->
        IF start <= r /\ r < end /\ start <= c /\ c < end
        THEN Symmetrized(block, r - start, c - start)
        ELSE m[r][c]]]

\* matrix[i, j] = matrix[j, i] = 1
WithEdge(m, i, j) == [m EXCEPT ![i][j] = 1, ![j][i] = 1]

\* the frame once the block loop is over: at the first pair of
\* for i in range(size): for j in range(i + 1, size), or returning
AtFirstPair(f) ==
    IF f.size >= 2 THEN [f EXCEPT !.pc = "pairs", !.i = 0, !.j = 1]
    ELSE [f EXCEPT !.pc = "returned"]

\* the frame at the pair after (i, j), or returning
AtNextPair(f) ==
    IF f.j + 1 < f.size THEN [f EXCEPT !.j = f.j + 1]
    ELSE IF f.i + 2 < f.size THEN [f EXCEPT !.i = f.i + 1, !.j = f.i + 2]
    ELSE [f EXCEPT !.pc = "returned"]

\* matrix = np.zeros((size, size)); community_size = size // num_communities
GenerateStart ==
    /\ gm.pc = "start"
    /\ gm' = IF gm.num_communities = 0
             THEN [gm EXCEPT !.pc = "raised", !.matrix = Zeros(gm.size)]
             ELSE LET f == [gm EXCEPT !.matrix = Zeros(gm.size),
                                      !.community_size = gm.size \div gm.num_communities,
                                      !.i = 0]
                  IN  [f EXCEPT !.pc = "blocks"]
    /\ UNCHANGED Others

\* one turn of for i in range(num_communities): a random block, symmetrized,
\* stored on the diagonal
GenerateBlock ==
    /\ gm.pc = "blocks"
    /\ LET cs    == gm.community_size
           start == gm.i * cs
           cells == (0..cs - 1) \X (0..cs - 1)
       IN  \E u \in [cells -> Draws] :
              LET block == [p \in cells |-> Sampled(u[p], gm.community_density)]
                  f     == [gm EXCEPT !.matrix = WithBlock(gm.matrix, start, start + cs, block),
                                      !.i = gm.i + 1]
              IN  gm' = IF gm.i + 1 < gm.num_communities THEN f ELSE AtFirstPair(f)
    /\ UNCHANGED Others

\* one turn of the pair loop: an edge between different communities with
\* probability inter_community_density; i // 0 raises ZeroDivisionError
GeneratePair ==
    /\ gm.pc = "pairs"
    /\ IF gm.community_size = 0
       THEN gm' = [gm EXCEPT !.pc = "raised"]
       ELSE IF (gm.i \div gm.community_size) # (gm.j \div gm.community_size)
       THEN \E u \in Draws :
               gm' = AtNextPair(IF Sampled(u, gm.inter_community_density)
                                THEN [gm EXCEPT !.matrix = WithEdge(gm.matrix, gm.i, gm.j)]
                                ELSE gm)
       ELSE gm' = AtNextPair(gm)
    /\ UNCHANGED Others

InitGenerate ==
    /\ variant = "gen"
    /\ pc = "generate_matrix"
    /\ cli = NoCli
    /\ files = [f \in FileNames |-> "missing"]
    /\ matrix = <<>>
    /\ state = NoState
    /\ log = <<>>
    /\ style = NewStyle
    /\ handlers = FALSE
    /\ actors = <<>>
    /\ pipeline = NoPipeline
    /\ view_window = 0
    /\ last_reset = FALSE
    /\ \E size \in 0..MaxSize, nc \in 0..MaxComm, cd \in Densities, icd \in Densities :
          /\ nc # 0 => size \div nc <= MaxBlock
          /\ gm = [pc |-> "start", size |-> size, num_communities |-> nc,
                   community_density |-> cd, inter_community_density |-> icd,
                   matrix |-> <<>>, community_size |-> 0, i |-> 0, j |-> 0]

NextGenerate ==
    \/ GenerateStart
    \/ GenerateBlock
    \/ GeneratePair

SpecGenerate == InitGenerate /\ [][NextGenerate]_vars

(***************************************************************************)
(* create_vtk_pipeline of matrix_viz.py on its own                         *)
(***************************************************************************)
\* largest matrix coloured
MaxImage == 2

\* cell values: -1, 0, 1/2 and 2
CellValues == {-CellDen, 0, CellDen \div 2, 2 * CellDen}

SquareMatrices(n) == [0..n - 1 -> [0..n - 1 -> CellValues]]

\* a call of create_vtk_pipeline(matrix, colormap_name)
CallCreatePipeline ==
    /\ pc = "create_vtk_pipeline"
    /\ LET built == create_vtk_pipeline(matrix, state.colormap_name)
       IN  IF built.raised = ""
           THEN /\ actors' = <<built.actor>>
                /\ pipeline' = Pipeline(1)
                /\ pc' = "returned"
           ELSE /\ pc' = "raised"
                /\ UNCHANGED <<actors, pipeline>>
    /\ UNCHANGED <<variant, cli, files, matrix, state, log, style, handlers, view_window,
                   last_reset, gm>>

InitPipeline ==
    /\ variant = "viz"
    /\ pc = "create_vtk_pipeline"
    /\ cli = NoCli
    /\ files = [f \in FileNames |-> "missing"]
    /\ \E n \in 0..MaxImage : matrix \in SquareMatrices(n)
    /\ \E name \in ColormapNames : state = [NoState EXCEPT !.colormap_name = name]
    /\ log = <<>>
    /\ style = NewStyle
    /\ handlers = FALSE
    /\ actors = <<>>
    /\ pipeline = NoPipeline
    /\ view_window = 0
    /\ last_reset = FALSE
    /\ gm = NoFrame

NextPipeline == CallCreatePipeline

SpecPipeline == InitPipeline /\ [][NextPipeline]_vars
(***************************************************************************)
(* Properties                                                              *)
(***************************************************************************)
Viz == variant = "viz" /\ handlers

\* the position of the actor the style pans, and the style's zoom
PanOffset == actors[style.image_actor].pos

\* C1: in matrix_viz.py, with the image actor set, the state a reset_view
\* leaves has zoom_level = 1.0 and the actor at (0, 0), whatever presses,
\* moves, releases, wheel turns, zoom_in, zoom_out and resets came before.
ResetRestoresView ==
    (Viz /\ last_reset /\ style.image_actor # 0) =>
        /\ style.zoom_level = One
        /\ PanOffset[1] = 0 /\ PanOffset[2] = 0

\* a reset that ran in the middle of a drag, after a colormap change
ResetAfterHistory ==
    /\ Viz /\ last_reset /\ style.image_actor # 0
    /\ style.pan_mode /\ style.last_x = 2
    /\ Len(actors) > 1

ZoomInRange == FLe(ZoomMin, style.zoom_level) /\ FLe(style.zoom_level, ZoomMax)

\* a step of zoom_level in matrix_viz.py that is no reset: times 1.2 or over
\* 1.2, or the clamp where that would leave [0.1, 5.0]
ZoomStep ==
    (Viz /\ style'.zoom_level # style.zoom_level /\ ~last_reset') =>
        LET up   == FMul(style.zoom_level, ZoomFactor)
            down == FDiv(style.zoom_level, ZoomFactor)
        IN  \/ style'.zoom_level = up /\ FLe(up, ZoomMax)
            \/ style'.zoom_level = ZoomMax /\ FLe(ZoomMax, up)
            \/ style'.zoom_level = down /\ FLe(ZoomMin, down)
            \/ style'.zoom_level = ZoomMin /\ FLe(down, ZoomMin)

\* C2: in matrix_viz.py zoom_level is within [0.1, 5.0] in every reachable
\* state, and every step that is not clamped multiplies or divides it by 1.2.
ZoomClamped == [](variant = "viz" => ZoomInRange) /\ [][ZoomStep]_vars

\* the lower clamp has acted, after a pan: zoom_level is 0.1, which no power
\* of 1.2 is
ZoomAtClamp == Viz /\ style.zoom_level = ZoomMin /\ PanOffset[1] # 0

\* the significands differ by at most one unit
SigWithinOne(ahi, alo, bhi, blo) ==
    \/ ahi = bhi /\ Abs(alo - blo) <= 1
    \/ ahi = bhi + 1 /\ alo = 0 /\ blo = W26 - 1
    \/ bhi = ahi + 1 /\ blo = 0 /\ alo = W26 - 1

\* |a - b| is at most one unit in the last place of b
WithinOneUlp(a, b) ==
    \/ a.e = b.e /\ SigWithinOne(a.hi, a.lo, b.hi, b.lo)
    \/ a.e = b.e - 1 /\ b.hi = W26 /\ b.lo = 0 /\ a.hi = W27 - 1 /\ a.lo >= W26 - 2
    \/ a.e = b.e + 1 /\ a.hi = W26 /\ a.lo = 0 /\ b.hi = W27 - 1 /\ b.lo = W26 - 1

\* zoom-in then zoom-out from the present zoom_level, in the running variant
RoundTrip ==
    IF variant = "viz" THEN VizZoomedOut(VizZoomedIn(style.zoom_level))
    ELSE GenZoomedOut(GenZoomedIn(style.zoom_level))

\* neither step of the round trip is clamped (the first variant never clamps)
RoundTripUnclamped ==
    variant = "viz" =>
        LET up == FMul(style.zoom_level, ZoomFactor)
        IN  FLe(up, ZoomMax) /\ FLe(ZoomMin, FDiv(up, ZoomFactor))

\* C3 as stated: from every reachable zoom_level, zoom-in then zoom-out gives
\* the same zoom_level back, when neither step is clamped.
RoundTripExact == (handlers /\ RoundTripUnclamped) => RoundTrip = style.zoom_level

\* C3 amended: from every reachable zoom_level, zoom-in then zoom-out gives
\* zoom_level back to within one unit in the last place, when neither step is
\* clamped.
RoundTripWithinUlp ==
    (handlers /\ RoundTripUnclamped) => WithinOneUlp(RoundTrip, style.zoom_level)

\* a zoom_level in each variant that the round trip misses by the last bit
RoundTripInexact ==
    /\ handlers /\ RoundTripUnclamped
    /\ RoundTrip # style.zoom_level
    /\ variant = "gen"

Press == VizOnLeftButtonDown \/ GenOnLeftButtonDown

Release == VizOnLeftButtonUp \/ GenOnLeftButtonUp

Move == VizOnMouseMove \/ GenOnMouseMove

Panning == style.pan_mode /\ style.image_actor # 0

\* the pan machine; ysign is the sign with which the pointer's dy enters the
\* offset's y
PanMachine(ysign) ==
    /\ Press => /\ style'.pan_mode
                /\ <<style'.last_x, style'.last_y>> \in EventPositions
                /\ actors' = actors
    /\ Release => ~style'.pan_mode /\ actors' = actors
    /\ Move => IF Panning
               THEN /\ PanOffset' = <<PanOffset[1] + (style'.last_x - style.last_x),
                                      PanOffset[2] + ysign * (style'.last_y - style.last_y),
                                      PanOffset[3]>>
                    /\ <<style'.last_x, style'.last_y>> \in EventPositions
                    /\ style'.pan_mode
               ELSE /\ actors' = actors
                    /\ style' = style

\* C4 as stated: press enters Panning and records the pointer, release leaves
\* it, a move while Panning adds the pointer's delta to the pan offset and
\* records the pointer, a move while Idle changes neither offset nor zoom.
PanAddsDelta == [][PanMachine(1)]_vars

\* C4 amended: the same, with the move adding the delta's x to the offset's x
\* and subtracting the delta's y from the offset's y.
PanMirrorsY == [][PanMachine(-1)]_vars

\* a drag that has moved the actor, still going on
Dragged == handlers /\ style.pan_mode /\ PanOffset[1] = 2 /\ PanOffset[2] = -1

\* C7: in matrix_viz.py a colormap change to an unknown name is logged and
\* raises nothing: actor, renderer, render window, zoom_level and pan offset
\* stay as they were and loading ends False.
UnknownColormapHarmless ==
    [][(ColormapChange /\ state'.colormap_name \notin Colormaps) =>
          /\ log' = Append(log, "Error updating colormap")
          /\ pipeline' = pipeline /\ actors' = actors /\ view_window' = view_window
          /\ style' = style
          /\ state'.loading = FALSE
          /\ pc' = pc]_vars

\* the unknown name arrived after a rebuild, a zoom and a pan
UnknownColormapSeen ==
    /\ Viz /\ state.colormap_name \notin Colormaps
    /\ log = <<"Error updating colormap">> /\ ~state.loading
    /\ pipeline.actor = 2
    /\ style.zoom_level # One /\ PanOffset[1] # 0

\* C8: matrix_viz.py exits with code 1 after the usage line when it has not
\* exactly one argument, and with code 1 after an error line when the file
\* named does not exist; setup_server is not called, the server not started.
ExitsBeforeSetup ==
    LET wrong_args == Len(cli.argv) # 2
        no_file    == Len(cli.argv) = 2 /\ files[cli.argv[2]] = "missing"
        untouched  == state = NoState /\ ~handlers /\ view_window = 0 /\ log = <<>>
    IN  /\ wrong_args =>
            /\ pc \in {"main", "exited"} /\ untouched
            /\ pc = "exited" =>
                  /\ cli.exit_code = 1
                  /\ cli.printed = <<"Usage: python3 matrix_viz.py <matrix_file>">>
        /\ no_file =>
            /\ pc \in {"main", "check_file", "exited"} /\ untouched
            /\ pc = "exited" =>
                  /\ cli.exit_code = 1
                  /\ cli.printed = <<"Error: Matrix file not found.">>

\* the one argument names a file that is not there, and the process is gone
ExitedOnMissingFile ==
    /\ pc = "exited" /\ Len(cli.argv) = 2 /\ files[cli.argv[2]] = "missing"
    /\ cli.exit_code = 1

Returned == gm.pc = "returned"

Indices == 0..gm.size - 1

\* C5: every matrix generate_matrix returns has entries 0 and 1, a zero
\* diagonal and is symmetric, whatever the draws.
GeneratedSymmetric ==
    Returned =>
        \A i \in Indices : \A j \in Indices :
            /\ gm.matrix[i][j] \in {0, 1}
            /\ gm.matrix[i][i] = 0
            /\ gm.matrix[i][j] = gm.matrix[j][i]

\* a returned matrix with an edge inside a community and one between two
GeneratedBoth ==
    /\ Returned /\ gm.size = 5 /\ gm.num_communities = 2
    /\ gm.matrix[0][1] = 1 /\ gm.matrix[1][0] = 1
    /\ gm.matrix[1][4] = 1 /\ gm.matrix[0][2] = 0

\* the rows covered by the num_communities blocks
InBlocks(i) == i < gm.num_communities * gm.community_size

\* C9: with inter_community_density 0 every edge of the returned matrix joins
\* two rows of the same block of floor(size / num_communities) rows; the rows
\* and columns after the last block are zero.
EdgesInsideBlocks ==
    (Returned /\ gm.inter_community_density = 0) =>
        \A i \in Indices : \A j \in Indices :
            /\ gm.matrix[i][j] = 1 =>
                  /\ InBlocks(i) /\ InBlocks(j)
                  /\ i \div gm.community_size = j \div gm.community_size
            /\ ~InBlocks(i) => gm.matrix[i][j] = 0 /\ gm.matrix[j][i] = 0

\* size 5 in 2 communities: both blocks have their edge, row 4 is left over
RemainderRowLeft ==
    /\ Returned /\ gm.inter_community_density = 0
    /\ gm.size = 5 /\ gm.num_communities = 2
    /\ gm.matrix[0][1] = 1 /\ gm.matrix[2][3] = 1
    /\ ~InBlocks(4)

\* C6: create_vtk_pipeline of matrix_viz.py colours pixel (j, i) from
\* matrix[i][j]: a value > 0 by the named scale at the value normalised over
\* [0, 1], the value 0 by (245, 245, 245).
CellsColoured ==
    pc = "returned" =>
        \A i \in DOMAIN matrix : \A j \in DOMAIN matrix :
            LET pixel == actors[pipeline.actor].image[<<j, i>>]
                v     == matrix[i][j]
            IN  /\ v > 0 => pixel = ScaleBytes(state.colormap_name, LutIndex(Normalize(v)))
                /\ v = 0 => pixel = NoEdgeColor

\* a 2 x 2 matrix that is not symmetric, with an edge, a zero and a value
\* above 1
ColouredAsymmetric ==
    /\ pc = "returned" /\ Size(matrix) = 2
    /\ matrix[0][1] = CellDen \div 2 /\ matrix[1][0] = 0
    /\ matrix[1][1] = 2 * CellDen
    /\ actors[1].image[<<1, 0>>] = <<state.colormap_name, 128>>
    /\ actors[1].image[<<0, 1>>] = NoEdgeColor

\* C10: in matrix_viz.py the actor the style pans and zooms is the actor of
\* the pipeline built last, and the window of the remote view is that
\* pipeline's window.
ViewShowsLatestPipeline ==
    Viz => /\ style.image_actor = pipeline.actor
           /\ view_window = pipeline.render_window
=============================================================================
